---- MODULE Spec2Model ----
(***************************************************************************)
(* FinanceHub Pro (src/app.py): a Streamlit script that is re-run from top *)
(* to bottom for every user action.  The model keeps the two pickle files, *)
(* the per-browser session state, the memoised news/alert results and the  *)
(* messages the last run displayed, and has one action per page handler.   *)
(*                                                                         *)
(* Texts.  A short text (a model reply, an alert line) is a sequence of    *)
(* pieces, each a single character or a word of letters; "EM" is the em    *)
(* dash U+2014.  A long text (a blog body, a pasted document) is kept by its    *)
(* run lengths: lead whitespace characters, then body characters that      *)
(* start and end with a non-blank, then trail whitespace characters.       *)
(***************************************************************************)
EXTENDS Integers, Sequences, FiniteSets, TLC

VARIABLES
    disk,          \* finance_app_data/: file name -> Absent or pickled bytes
    sess,          \* st.session_state of each browser session, or NoSession
    loaded,        \* per session: how many records of each kind it loaded
    ui,            \* what the last script run displayed
    calls,         \* the external calls the last script run made, in order
    now,           \* wall clock, seconds
    news_cache,    \* st.cache_data entry of fetch_news
    alerts_cache,  \* st.cache_data entries of get_stock_alerts
    call,          \* pure-function check: the call being made
    ret            \* pure-function check: its result, or NoRet

vars == <<disk, sess, loaded, ui, calls, now, news_cache, alerts_cache, call, ret>>
appvars == <<disk, sess, loaded, ui, calls, now, news_cache, alerts_cache>>

-----------------------------------------------------------------------------
(* Bounds of the model *)

MaxRecords == 3      \* records of both kinds one store may come to hold
MaxLines == 3        \* lines in one parse_alerts input
MaxTime == 1200      \* the clock stops here
TickStep == 300      \* seconds per tick of the clock

-----------------------------------------------------------------------------
(* Short texts: sequences of pieces, each one character or one word *)

EmDash == "EM"
Whitespace == {" ", "\n", "\t"}
Digits == <<"0", "1", "2", "3", "4", "5", "6", "7", "8", "9">>

Max(a, b) == IF a >= b THEN a ELSE b
Min(a, b) == IF a <= b THEN a ELSE b

RECURSIVE lstrip_chars(_, _)
lstrip_chars(t, cs) ==
    IF t # <<>> /\ Head(t) \in cs THEN lstrip_chars(Tail(t), cs) ELSE t

RECURSIVE rstrip_chars(_, _)
rstrip_chars(t, cs) ==
    IF t # <<>> /\ t[Len(t)] \in cs
    THEN rstrip_chars(SubSeq(t, 1, Len(t) - 1), cs)
    ELSE t

\* str.strip(chars): drop leading and trailing characters that are in cs
strip_chars(t, cs) == rstrip_chars(lstrip_chars(t, cs), cs)

\* str.strip(): drop leading and trailing whitespace
strip(t) == strip_chars(t, Whitespace)

\* str.split(sep) for a one-character separator: always at least one part
RECURSIVE split(_, _)
split(t, sep) ==
    IF \A i \in 1..Len(t) : t[i] # sep
    THEN <<t>>
    ELSE LET k == CHOOSE i \in 1..Len(t) :
                      t[i] = sep /\ \A j \in 1..(i - 1) : t[j] # sep
         IN <<SubSeq(t, 1, k - 1)>> \o split(SubSeq(t, k + 1, Len(t)), sep)

\* Python's None and a present value
None == <<>>
Some(v) == <<v>>

IsDigit(c) == \E i \in 1..10 : Digits[i] = c
DigitVal(c) == (CHOOSE i \in 1..10 : Digits[i] = c) - 1

RECURSIVE digits_value(_, _)
digits_value(t, acc) ==
    IF t = <<>> THEN acc ELSE digits_value(Tail(t), 10 * acc + DigitVal(Head(t)))

\* int(text): an optional sign and one or more decimal digits, else ValueError
\* (None here).  The texts of the model carry no underscores.
to_int(text) ==
    LET t == strip(text)
        signed == t # <<>> /\ Head(t) \in {"+", "-"}
        ds == IF signed THEN Tail(t) ELSE t
    IN IF ds # <<>> /\ \A i \in 1..Len(ds) : IsDigit(ds[i])
       THEN Some(IF signed /\ Head(t) = "-"
                 THEN 0 - digits_value(ds, 0)
                 ELSE digits_value(ds, 0))
       ELSE None

\* round(n / d) for d > 0: to the nearest integer, a tie to the even one
py_round(n, d) ==
    LET q == n \div d
        r == n % d
    IN IF 2 * r < d THEN q
       ELSE IF 2 * r > d THEN q + 1
       ELSE IF q % 2 = 0 THEN q ELSE q + 1

-----------------------------------------------------------------------------
(* One call of model.generate_content: it raises, or it returns a text *)

Raised == [raised |-> TRUE, msg |-> "quota exceeded"]
Reply(text) == [raised |-> FALSE, text |-> text]

-----------------------------------------------------------------------------
(* Blog rating.  content.pol is the polarity TextBlob gives the blog body, *)
(* in hundredths (-100..100).                                              *)

rate_with_textblob_strict(content) ==
    LET polarity == content.pol
    IN IF polarity < -60 THEN 1
       ELSE IF polarity < -20 THEN 2
       ELSE IF polarity < 20 THEN 3
       ELSE IF polarity < 60 THEN 4
       ELSE 5

rate_with_textblob(content) ==
    LET polarity == content.pol
    IN IF polarity <= -60 THEN 1
       ELSE IF polarity <= -20 THEN 2
       ELSE IF polarity <= 20 THEN 3
       ELSE IF polarity <= 60 THEN 4
       ELSE 5

\* gens: the outcomes the model would give to successive calls.  The result
\* is the rating (or None) and the number of calls made.
rate_with_gemini(content, gens) ==
    LET res == gens[1]
    IN [v |-> IF res.raised THEN None ELSE to_int(strip(res.text)),
        used |-> 1]

rate_blog_not_none(content, gens) ==
    LET g == rate_with_gemini(content, gens)
        blob_rating == rate_with_textblob(content)
    IN IF g.v # None
       THEN [v |-> Max(1, Min(5, py_round(g.v[1] * 4 + blob_rating, 5))),
             used |-> g.used]
       ELSE [v |-> blob_rating, used |-> g.used]

rate_blog_unclamped(content, gens) ==
    LET g == rate_with_gemini(content, gens)
        blob_rating == rate_with_textblob(content)
    IN IF g.v # None /\ g.v[1] # 0
       THEN [v |-> py_round(g.v[1] * 4 + blob_rating, 5), used |-> g.used]
       ELSE [v |-> blob_rating, used |-> g.used]

rate_blog_swapped(content, gens) ==
    LET g == rate_with_gemini(content, gens)
        blob_rating == rate_with_textblob(content)
    IN IF g.v # None /\ g.v[1] # 0
       THEN [v |-> Max(1, Min(5, py_round(g.v[1] + blob_rating * 4, 5))),
             used |-> g.used]
       ELSE [v |-> blob_rating, used |-> g.used]

rate_blog(content, gens) ==
    LET g == rate_with_gemini(content, gens)
        gemini_rating == g.v
        blob_rating == rate_with_textblob(content)
    IN IF gemini_rating # None /\ gemini_rating[1] # 0
       THEN LET final == py_round(gemini_rating[1] * 4 + blob_rating, 5)
            IN [v |-> Max(1, Min(5, final)), used |-> g.used]
       ELSE [v |-> blob_rating, used |-> g.used]

-----------------------------------------------------------------------------
(* Long texts by run length: [lead, body, trail, pol].  body = 0 implies   *)
(* trail = 0 (a text of whitespace alone is all lead).                     *)

Text(lead, body, trail, pol) ==
    [lead |-> lead, body |-> body, trail |-> trail, pol |-> pol]

EmptyText == Text(0, 0, 0, 0)

\* len(text)
text_len(c) == c.lead + c.body + c.trail

\* text.strip()
text_strip(c) == Text(0, c.body, 0, c.pol)

\* text[:n]
text_take(c, n) ==
    LET lead == Min(c.lead, n)
        body == Min(c.body, n - lead)
        trail == Min(c.trail, n - lead - body)
    IN IF body = 0 THEN Text(lead, 0, 0, c.pol) ELSE Text(lead, body, trail, c.pol)

\* text + "..."
text_add_dots(c) == Text(c.lead, c.body + c.trail + 3, 0, c.pol)

-----------------------------------------------------------------------------
(* pickle: a list of dicts as an opcode stream, and the stack machine that *)
(* reads it back.  Keys are written in the dict's insertion order.         *)

BlogKeys == <<"id", "user_name", "title", "content", "tag", "time", "likes",
              "comments", "rating">>
SummaryKeys == <<"id", "title", "type", "content", "summary", "timestamp">>

IntKeys == {"id", "likes", "comments", "rating"}
TimeKeys == {"time", "timestamp"}
LongTextKeys == {"content"}

Op(name) == [op |-> name]

pickle_value(k, v) ==
    IF k \in IntKeys THEN [op |-> "BININT", i |-> v]
    ELSE IF k \in TimeKeys THEN [op |-> "DATETIME", at |-> v]
    ELSE IF k \in LongTextKeys THEN [op |-> "BINUNICODE", txt |-> v]
    ELSE [op |-> "SHORT_BINUNICODE", s |-> v]

RECURSIVE pickle_items(_, _, _)
pickle_items(d, keys, i) ==
    IF i > Len(keys) THEN <<>>
    ELSE <<[op |-> "SHORT_BINUNICODE", s |-> keys[i]],
           pickle_value(keys[i], d[keys[i]])>> \o pickle_items(d, keys, i + 1)

pickle_dict(d, keys) ==
    <<Op("EMPTY_DICT"), Op("MARK")>> \o pickle_items(d, keys, 1)
        \o <<Op("SETITEMS")>>

RECURSIVE pickle_dicts(_, _)
pickle_dicts(l, keys) ==
    IF l = <<>> THEN <<>>
    ELSE pickle_dict(Head(l), keys) \o pickle_dicts(Tail(l), keys)

\* pickle.dump(list): an empty list has no items part, one item is APPENDed,
\* several are marked and APPENDSed
pickle_dump(l, keys) ==
    <<Op("PROTO"), Op("EMPTY_LIST")>>
        \o (IF Len(l) = 0 THEN <<>>
            ELSE IF Len(l) = 1 THEN pickle_dict(l[1], keys) \o <<Op("APPEND")>>
            ELSE <<Op("MARK")>> \o pickle_dicts(l, keys) \o <<Op("APPENDS")>>)
        \o <<Op("STOP")>>

StackMark == [k |-> "mark"]

\* index of the topmost mark of a stack
top_mark(st) ==
    CHOOSE m \in 1..Len(st) :
        st[m].k = "mark" /\ \A j \in (m + 1)..Len(st) : st[j].k # "mark"

leaf_value(tok) ==
    IF tok.op = "BININT" THEN tok.i
    ELSE IF tok.op = "DATETIME" THEN tok.at
    ELSE IF tok.op = "BINUNICODE" THEN tok.txt
    ELSE tok.s

\* the Python object a stack entry stands for
stack_value(e) ==
    IF e.k = "leaf" THEN leaf_value(e.tok)
    ELSE IF e.k = "list" THEN e.l
    ELSE e.d

\* the objects of the stack entries lo..hi, in order
RECURSIVE stack_values(_, _, _)
stack_values(st, lo, hi) ==
    IF lo > hi THEN <<>>
    ELSE Append(stack_values(st, lo, hi - 1), stack_value(st[hi]))

\* dict d after d[key] = value for the key, value pairs in entries lo..hi
RECURSIVE set_items(_, _, _, _)
set_items(d, st, lo, hi) ==
    IF lo + 1 > hi THEN d
    ELSE set_items((stack_value(st[lo]) :> stack_value(st[lo + 1])) @@ d,
                   st, lo + 2, hi)

\* one opcode executed on the stack
unpickle_step(st, t) ==
    LET n == Len(st)
    IN CASE t.op \in {"PROTO", "STOP"} -> st
         [] t.op = "EMPTY_LIST" -> Append(st, [k |-> "list", l |-> <<>>])
         [] t.op = "EMPTY_DICT" -> Append(st, [k |-> "dict", d |-> <<>>])
         [] t.op = "MARK" -> Append(st, StackMark)
         [] t.op = "APPEND" ->
                Append(SubSeq(st, 1, n - 2),
                       [k |-> "list",
                        l |-> Append(st[n - 1].l, stack_value(st[n]))])
         [] t.op = "APPENDS" ->
                LET m == top_mark(st)
                IN Append(SubSeq(st, 1, m - 2),
                          [k |-> "list",
                           l |-> st[m - 1].l \o stack_values(st, m + 1, n)])
         [] t.op = "SETITEMS" ->
                LET m == top_mark(st)
                IN Append(SubSeq(st, 1, m - 2),
                          [k |-> "dict",
                           d |-> set_items(st[m - 1].d, st, m + 1, n)])
         [] OTHER -> Append(st, [k |-> "leaf", tok |-> t])

\* the opcodes lo..hi executed in order
RECURSIVE unpickle_run(_, _, _, _)
unpickle_run(toks, lo, hi, st) ==
    IF lo > hi THEN st
    ELSE IF lo = hi THEN unpickle_step(st, toks[lo])
    ELSE LET mid == (lo + hi) \div 2
             half == unpickle_run(toks, lo, mid, st)
         IN \* the first half is run to its end before the second starts
            IF Len(half) >= 0 THEN unpickle_run(toks, mid + 1, hi, half)
            ELSE half

\* pickle.load(bytes): run to STOP, the result is the top of the stack
pickle_load(toks) ==
    LET st == unpickle_run(toks, 1, Len(toks), <<>>)
    IN stack_value(st[Len(st)])

-----------------------------------------------------------------------------
(* Record store: one pickle file per record kind under finance_app_data/.  *)
(* d is the directory: a function from the names of the files that exist.  *)

BlogsFile == "blogs.pkl"
SummariesFile == "summaries.pkl"
NoFiles == <<>>

save_blogs_to_summaries(d, blogs) ==
    (SummariesFile :> pickle_dump(blogs, BlogKeys)) @@ d

save_blogs(d, blogs) == (BlogsFile :> pickle_dump(blogs, BlogKeys)) @@ d

load_blogs(d) ==
    IF BlogsFile \in DOMAIN d THEN pickle_load(d[BlogsFile]) ELSE <<>>

save_summaries(d, summaries) ==
    (SummariesFile :> pickle_dump(summaries, SummaryKeys)) @@ d

load_summaries(d) ==
    IF SummariesFile \in DOMAIN d THEN pickle_load(d[SummariesFile]) ELSE <<>>

-----------------------------------------------------------------------------
(* Session state: a dict, empty when the browser session is new *)

NewSession == <<>>

init_session_off_by_one(ss, d) ==
    LET s1 == IF "blogs" \notin DOMAIN ss
              THEN ("blogs" :> load_blogs(d)) @@ ss ELSE ss
        s2 == IF "blog_counter" \notin DOMAIN s1
              THEN ("blog_counter" :> Len(s1.blogs)) @@ s1 ELSE s1
        s3 == IF "summaries" \notin DOMAIN s2
              THEN ("summaries" :> load_summaries(d)) @@ s2 ELSE s2
        s4 == IF "summary_counter" \notin DOMAIN s3
              THEN ("summary_counter" :> Len(s3.summaries)) @@ s3 ELSE s3
    IN s4

init_session_reload(ss, d) ==
    [blogs |-> load_blogs(d),
     blog_counter |-> Len(load_blogs(d)) + 1,
     summaries |-> load_summaries(d),
     summary_counter |-> Len(load_summaries(d)) + 1]

\* the four "if key not in st.session_state" blocks the script starts with
init_session(ss, d) ==
    LET s1 == IF "blogs" \notin DOMAIN ss
              THEN ("blogs" :> load_blogs(d)) @@ ss ELSE ss
        s2 == IF "blog_counter" \notin DOMAIN s1
              THEN ("blog_counter" :> Len(s1.blogs) + 1) @@ s1 ELSE s1
        s3 == IF "summaries" \notin DOMAIN s2
              THEN ("summaries" :> load_summaries(d)) @@ s2 ELSE s2
        s4 == IF "summary_counter" \notin DOMAIN s3
              THEN ("summary_counter" :> Len(s3.summaries) + 1) @@ s3 ELSE s3
    IN s4

\* what the session is recorded to have loaded, taken on its first run
init_loaded(ss, d, old) ==
    IF "blogs" \notin DOMAIN ss
    THEN [blogs |-> Len(load_blogs(d)), summaries |-> Len(load_summaries(d))]
    ELSE old

-----------------------------------------------------------------------------
(* Market alerts *)

TTL == 600

AlertStrip == {" ", "-", "*", EmDash}

\* One outcome of requests.get(...) and what follows it up to response.json()
NewsTimeout == [kind |-> "timeout"]
NewsNetworkError == [kind |-> "request_error"]
NewsBadBody == [kind |-> "other_error"]
NewsData(status, articles) ==
    [kind |-> "ok", status |-> status, articles |-> articles]

Article(title, description) == [title |-> title, description |-> description]

RECURSIVE news_lines(_)
news_lines(articles) ==
    IF articles = <<>> THEN <<>>
    ELSE LET a == Head(articles)
         IN (IF a.title # "" /\ a.description # ""
             THEN <<<<a.title, ". ", a.description>>>> ELSE <<>>)
                \o news_lines(Tail(articles))

\* the body of fetch_news: the list it returns and the st.error it shows
fetch_news_body(outcome) ==
    IF outcome.kind = "timeout" THEN [val |-> <<>>, msg |-> <<"news_timeout">>]
    ELSE IF outcome.kind = "request_error"
    THEN [val |-> <<>>, msg |-> <<"news_network_error">>]
    ELSE IF outcome.kind = "other_error"
    THEN [val |-> <<>>, msg |-> <<"news_error">>]
    ELSE IF outcome.status = "error"
    THEN [val |-> <<>>, msg |-> <<"news_api_error">>]
    ELSE [val |-> news_lines(outcome.articles), msg |-> <<>>]

cache_fresh_inclusive(entry, t) == t - entry.at <= TTL

\* an st.cache_data entry is served while it is younger than the ttl
cache_fresh(entry, t) == t - entry.at < TTL

\* the body of get_stock_alerts: the lines it returns and the calls it makes
get_stock_alerts_body(news_list, gens) ==
    IF news_list = <<>> THEN [val |-> <<>>, used |-> 0]
    ELSE LET res == gens[1]
         IN IF res.raised THEN [val |-> <<>>, used |-> 1]
            ELSE [val |-> split(strip(res.text), "\n"), used |-> 1]

\* [p.strip(chars) for p in parts]
RECURSIVE strip_each(_, _)
strip_each(parts, cs) ==
    IF parts = <<>> THEN <<>>
    ELSE <<strip_chars(Head(parts), cs)>> \o strip_each(Tail(parts), cs)

parse_line_more_than_4(line) ==
    IF strip(line) = <<>> \/ \A i \in 1..Len(line) : line[i] # EmDash
    THEN <<>>
    ELSE LET raw == split(line, EmDash)
             parts == strip_each(raw, AlertStrip)
         IN IF Len(parts) > 4
            THEN <<[headline |-> parts[1], stock |-> parts[2],
                    impact |-> parts[3], summary |-> parts[4]]>>
            ELSE <<>>

\* one iteration of the loop of parse_alerts: the alerts the line adds
parse_line(line) ==
    IF strip(line) = <<>> \/ \A i \in 1..Len(line) : line[i] # EmDash
    THEN <<>>
    ELSE LET raw == split(line, EmDash)
             parts == strip_each(raw, AlertStrip)
         IN IF Len(parts) >= 4
            THEN <<[headline |-> parts[1], stock |-> parts[2],
                    impact |-> parts[3], summary |-> parts[4]]>>
            ELSE <<>>

RECURSIVE parse_alerts(_)
parse_alerts(lines) ==
    IF lines = <<>> THEN <<>>
    ELSE parse_line(Head(lines)) \o parse_alerts(Tail(lines))

-----------------------------------------------------------------------------
(* Document summarizer *)

ErrorPrefix == "Error generating summary: "

summarize_document_empty_on_error(content, doc_type, gens) ==
    LET res == gens[1]
    IN IF res.raised THEN [v |-> <<>>, used |-> 1]
       ELSE [v |-> strip(res.text), used |-> 1]

summarize_document(content, doc_type, gens) ==
    LET res == gens[1]
    IN IF res.raised THEN [v |-> <<ErrorPrefix, res.msg>>, used |-> 1]
       ELSE [v |-> strip(res.text), used |-> 1]

-----------------------------------------------------------------------------
(* Memoised calls of the Market Alerts page *)

\* n calls of model.generate_content
RECURSIVE model_calls(_)
model_calls(n) ==
    IF n = 0 THEN <<>> ELSE <<"generate_content">> \o model_calls(n - 1)

fetch_news_forget_failures(cache, t, outcome) ==
    IF cache # None /\ cache_fresh(cache[1], t)
    THEN [val |-> cache[1].val, cache |-> cache, calls |-> <<>>,
          msg |-> cache[1].msg]
    ELSE LET r == fetch_news_body(outcome)
         IN [val |-> r.val,
             cache |-> IF r.val = <<>> THEN None
                       ELSE Some([val |-> r.val, at |-> t, msg |-> r.msg]),
             calls |-> <<"requests.get">>, msg |-> r.msg]

\* fetch_news() under @st.cache_data(ttl=600): a hit returns the stored value
\* and shows again the st.error the stored call showed
fetch_news(cache, t, outcome) ==
    IF cache # None /\ cache_fresh(cache[1], t)
    THEN [val |-> cache[1].val, cache |-> cache, calls |-> <<>>,
          msg |-> cache[1].msg]
    ELSE LET r == fetch_news_body(outcome)
         IN [val |-> r.val,
             cache |-> Some([val |-> r.val, at |-> t, msg |-> r.msg]),
             calls |-> <<"requests.get">>, msg |-> r.msg]

\* get_stock_alerts(news_list) under @st.cache_data(ttl=600), keyed by argument
get_stock_alerts(cache, t, news_list, gens) ==
    IF news_list \in DOMAIN cache /\ cache_fresh(cache[news_list], t)
    THEN [val |-> cache[news_list].val, cache |-> cache, calls |-> <<>>]
    ELSE LET r == get_stock_alerts_body(news_list, gens)
         IN [val |-> r.val,
             cache |-> (news_list :> [val |-> r.val, at |-> t]) @@ cache,
             calls |-> model_calls(r.used)]

\* the page body: fetch, analyse, parse, report
market_alerts_page(ncache, acache, t, outcome, gens) ==
    LET n == fetch_news(ncache, t, outcome)
    IN IF n.val = <<>>
       THEN [ncache |-> n.cache, acache |-> acache, calls |-> n.calls,
             ui |-> n.msg \o <<"alerts_error_unable_to_fetch">>]
       ELSE LET a == get_stock_alerts(acache, t, n.val, gens)
                alerts == parse_alerts(a.val)
            IN [ncache |-> n.cache, acache |-> a.cache,
                calls |-> n.calls \o a.calls,
                ui |-> n.msg \o (IF alerts = <<>>
                                 THEN <<"alerts_warning_none">>
                                 ELSE <<"alerts_success">>)]

-----------------------------------------------------------------------------
(* The script runs.  Each action is one run of the script for session s:   *)
(* the session-state initialisation, then the handler of the page.         *)

AllSessions == {1, 2}

Records(ss) == Len(ss.blogs) + Len(ss.summaries)

SetSession(s, ss) ==
    /\ sess' = [sess EXCEPT ![s] = ss]
    /\ loaded' = [loaded EXCEPT ![s] = init_loaded(sess[s], disk, loaded[s])]

\* Home & Glossary, or a history tab: nothing but the initialisation
ViewPage(s) ==
    /\ SetSession(s, init_session(sess[s], disk))
    /\ ui' = <<>>
    /\ calls' = <<>>
    /\ UNCHANGED <<disk, now, news_cache, alerts_cache, call, ret>>

blog_check_min_40(form) ==
    IF form.user_name = "" \/ form.title = "" \/ text_len(form.content) = 0
    THEN "error"
    ELSE IF text_len(form.content) < 40 THEN "warning"
    ELSE "ok"

\* the if/elif/else the blog form is checked by
blog_check(form) ==
    IF form.user_name = "" \/ form.title = "" \/ text_len(form.content) = 0
    THEN "error"
    ELSE IF text_len(form.content) < 50 THEN "warning"
    ELSE "ok"

new_blog(ss, form, rating, t) ==
    [id |-> ss.blog_counter,
     user_name |-> form.user_name,
     title |-> form.title,
     content |-> form.content,
     tag |-> IF form.tag # "" THEN form.tag ELSE "General Finance",
     time |-> t,
     likes |-> 0,
     comments |-> 0,
     rating |-> rating]

add_blog_in_front(ss, blog) ==
    [ss EXCEPT !.blogs = <<blog>> \o @, !.blog_counter = @ + 1]

\* st.session_state.blogs.append(new_blog); st.session_state.blog_counter += 1
add_blog(ss, blog) ==
    [ss EXCEPT !.blogs = Append(@, blog), !.blog_counter = @ + 1]

\* Blog Rating page, "Publish Blog" pressed with the form as filled in
SubmitBlog(s, form, gens) ==
    LET ss == init_session(sess[s], disk)
        check == blog_check(form)
    IN IF check = "error"
       THEN /\ SetSession(s, ss)
            /\ ui' = <<"blog_error_required_fields">>
            /\ calls' = <<>>
            /\ UNCHANGED <<disk, now, news_cache, alerts_cache, call, ret>>
       ELSE IF check = "warning"
       THEN /\ SetSession(s, ss)
            /\ ui' = <<"blog_warning_too_short">>
            /\ calls' = <<>>
            /\ UNCHANGED <<disk, now, news_cache, alerts_cache, call, ret>>
       ELSE LET r == rate_blog(form.content, gens)
                after == add_blog(ss, new_blog(ss, form, r.v, now))
            IN /\ Records(ss) < MaxRecords
               /\ SetSession(s, after)
               /\ disk' = save_blogs(disk, after.blogs)
               /\ ui' = <<"blog_success">>
               /\ calls' = model_calls(r.used)
               /\ UNCHANGED <<now, news_cache, alerts_cache, call, ret>>

summary_check_min_50(form) ==
    IF text_len(text_strip(form.content)) = 0 THEN "error"
    ELSE IF text_len(text_strip(form.content)) < 50 THEN "warning"
    ELSE "ok"

\* the if/elif/else the pasted document is checked by
summary_check(form) ==
    IF text_len(text_strip(form.content)) = 0 THEN "error"
    ELSE IF text_len(text_strip(form.content)) < 100 THEN "warning"
    ELSE "ok"

summary_obj(ss, form, summary, t) ==
    [id |-> ss.summary_counter,
     title |-> IF form.title # <<>> THEN form.title
               ELSE <<"Document ", ss.summary_counter>>,
     type |-> form.type,
     content |-> IF text_len(form.content) > 500
                 THEN text_add_dots(text_take(form.content, 500))
                 ELSE form.content,
     summary |-> summary,
     timestamp |-> t]

add_summary_keep_counter(ss, obj) ==
    [ss EXCEPT !.summaries = Append(@, obj)]

\* st.session_state.summaries.append(summary_obj);
\* st.session_state.summary_counter += 1
add_summary(ss, obj) ==
    [ss EXCEPT !.summaries = Append(@, obj), !.summary_counter = @ + 1]

\* Document Summarizer page, "Generate Summary" pressed
GenerateSummary(s, form, gens) ==
    LET ss == init_session(sess[s], disk)
        check == summary_check(form)
    IN IF check = "error"
       THEN /\ SetSession(s, ss)
            /\ ui' = <<"summary_error_empty">>
            /\ calls' = <<>>
            /\ UNCHANGED <<disk, now, news_cache, alerts_cache, call, ret>>
       ELSE IF check = "warning"
       THEN /\ SetSession(s, ss)
            /\ ui' = <<"summary_warning_too_short">>
            /\ calls' = <<>>
            /\ UNCHANGED <<disk, now, news_cache, alerts_cache, call, ret>>
       ELSE LET r == summarize_document(form.content, form.type, gens)
                after == add_summary(ss, summary_obj(ss, form, r.v, now))
            IN /\ Records(ss) < MaxRecords
               /\ SetSession(s, after)
               /\ disk' = save_summaries(disk, after.summaries)
               /\ ui' = <<"summary_success">>
               /\ calls' = model_calls(r.used)
               /\ UNCHANGED <<now, news_cache, alerts_cache, call, ret>>

\* Market Alerts page shown
MarketAlerts(s, outcome, gens) ==
    LET page == market_alerts_page(news_cache, alerts_cache, now, outcome, gens)
    IN /\ SetSession(s, init_session(sess[s], disk))
       /\ news_cache' = page.ncache
       /\ alerts_cache' = page.acache
       /\ ui' = page.ui
       /\ calls' = page.calls
       /\ UNCHANGED <<disk, now, call, ret>>

\* "Refresh Data" pressed: st.cache_data.clear(), st.rerun(), and the page
\* is shown again by the run that follows
RefreshData(s, outcome, gens) ==
    LET page == market_alerts_page(None, <<>>, now, outcome, gens)
    IN /\ SetSession(s, init_session(sess[s], disk))
       /\ news_cache' = page.ncache
       /\ alerts_cache' = page.acache
       /\ ui' = page.ui
       /\ calls' = page.calls
       /\ UNCHANGED <<disk, now, call, ret>>

\* the browser session ends: its session state is gone
EndSession(s) ==
    /\ sess[s] # NewSession
    /\ sess' = [sess EXCEPT ![s] = NewSession]
    /\ ui' = <<>>
    /\ calls' = <<>>
    /\ loaded' = [loaded EXCEPT ![s] = [blogs |-> 0, summaries |-> 0]]
    /\ UNCHANGED <<disk, now, news_cache, alerts_cache, call, ret>>

\* time passes
Tick ==
    /\ now + TickStep <= MaxTime
    /\ now' = now + TickStep
    /\ UNCHANGED <<disk, sess, loaded, ui, calls, news_cache, alerts_cache,
                   call, ret>>

-----------------------------------------------------------------------------
(* What the user and the services may supply *)

Form(u, t, c, g) == [user_name |-> u, title |-> t, content |-> c, tag |-> g]

OkGens == <<Reply(<<"5">>), Reply(<<"5">>)>>

\* Publish Blog: forms the check turns away, and forms it lets through with
\* the model's replies to the rating prompt: a failure, a word, 0, a
\* negative integer, an integer above 5
BlogSubmissions ==
    {[form |-> f, gens |-> OkGens] :
        f \in {Form("", "Outlook", Text(0, 50, 0, 70), ""),
               Form("amy", "", Text(0, 50, 0, 70), ""),
               Form("amy", "Outlook", EmptyText, "Crypto"),
               Form("amy", "Outlook", Text(0, 49, 0, 70), "Crypto")}}
    \cup
    {[form |-> Form("amy", "Outlook", Text(0, 50, 0, -60), ""),
      gens |-> <<g, Reply(<<"5">>)>>] :
        g \in {Raised, Reply(<<"f", "i", "v", "e">>), Reply(<<"0">>),
               Reply(<<"-", "3">>)}}
    \cup
    {[form |-> Form("amy", "Outlook", Text(1, 50, 0, 70), "Crypto"),
      gens |-> <<Reply(<<" ", "7", "\n">>), Raised>>]}

Doc(t, ty, c) == [title |-> t, type |-> ty, content |-> c]

\* Generate Summary: documents the check turns away, and documents it lets
\* through with the model's outcome
SummaryRequests ==
    {[form |-> f, gens |-> OkGens] :
        f \in {Doc(<<>>, "General", EmptyText),
               Doc(<<>>, "General", Text(3, 0, 0, 0)),
               Doc(<<"Q4 Report">>, "Balance Sheet", Text(0, 99, 0, 0)),
               Doc(<<"Q4 Report">>, "Balance Sheet", Text(1, 99, 1, 0))}}
    \cup
    {[form |-> Doc(<<>>, "General", Text(0, 100, 0, 0)),
      gens |-> <<g, Reply(<<"O", "K">>)>>] :
        g \in {Raised, Reply(<<" ", "O", "K", "\n">>)}}
    \cup
    {[form |-> Doc(<<"Q4 Report">>, "Balance Sheet", Text(2, 501, 1, 0)),
      gens |-> <<Reply(<<"O", "K">>), Raised>>]}

GoodLine ==
    <<"-", " ", "F", "e", "d", " ", EmDash, " ", "B", "a", "n", "k", "s", " ",
      EmDash, " ", "N", "e", "g", " ", EmDash, " ", "W", "h", "y">>

OneArticle ==
    NewsData("ok", <<Article("Fed raises rates", "Banks fall"),
                     Article("No description", "")>>)

\* Market Alerts: an outcome of the news request and of the analysis
AlertRuns ==
    {[outcome |-> NewsTimeout, gens |-> OkGens],
     [outcome |-> OneArticle,
      gens |-> <<Reply(<<"\n">> \o GoodLine \o <<"\n", "x", "\n">>), Raised>>]}

-----------------------------------------------------------------------------
(* The application *)

NoCall == [fn |-> "none"]
NoRet == [none |-> TRUE]

InitApp ==
    /\ disk = NoFiles
    /\ sess = [s \in AllSessions |-> NewSession]
    /\ loaded = [s \in AllSessions |-> [blogs |-> 0, summaries |-> 0]]
    /\ ui = <<>>
    /\ calls = <<>>
    /\ now = 0
    /\ news_cache = None
    /\ alerts_cache = <<>>

Init ==
    /\ InitApp
    /\ call = NoCall
    /\ ret = NoRet

Sessions == {1}

Next ==
    \/ \E s \in Sessions : ViewPage(s)
    \/ \E s \in Sessions, sub \in BlogSubmissions :
           SubmitBlog(s, sub.form, sub.gens)
    \/ \E s \in Sessions, req \in SummaryRequests :
           GenerateSummary(s, req.form, req.gens)
    \/ \E s \in Sessions, run \in AlertRuns :
           MarketAlerts(s, run.outcome, run.gens)
    \/ \E s \in Sessions, run \in AlertRuns :
           RefreshData(s, run.outcome, run.gens)
    \/ \E s \in Sessions : EndSession(s)

Spec == Init /\ [][Next]_vars

-----------------------------------------------------------------------------
(* The Market Alerts page alone, with the clock running *)

AllOutcomes ==
    {NewsTimeout, NewsNetworkError, NewsBadBody, NewsData("error", <<>>),
     NewsData("ok", <<>>), OneArticle}

AllAlertRuns ==
    {[outcome |-> o, gens |-> <<g, Raised>>] :
        o \in AllOutcomes,
        g \in {Raised, Reply(<<"n", "o", "n", "e">>),
               Reply(<<"\n">> \o GoodLine \o <<"\n", "x", "\n">>)}}

NextAlerts ==
    \/ \E s \in Sessions, run \in AllAlertRuns :
           MarketAlerts(s, run.outcome, run.gens)
    \/ \E s \in Sessions, run \in AllAlertRuns :
           RefreshData(s, run.outcome, run.gens)
    \/ Tick

SpecAlerts == Init /\ [][NextAlerts]_vars

-----------------------------------------------------------------------------
(* rate_blog as a function of the blog body and the model's outcomes *)

Polarities == -100..100

RatingReplies ==
    {Raised,
     Reply(<<"1">>), Reply(<<"2">>), Reply(<<"3">>), Reply(<<"4">>),
     Reply(<<"5">>), Reply(<<" ", "4", "\n">>), Reply(<<"+", "2">>),
     Reply(<<"0">>), Reply(<<" ", "0", "\n">>), Reply(<<"-", "0">>),
     Reply(<<"0", "0">>),
     Reply(<<"-", "3">>), Reply(<<"7">>), Reply(<<"1", "0", "0">>),
     Reply(<<"f", "i", "v", "e">>), Reply(<<>>), Reply(<<"4", ".", "5">>),
     Reply(<<"Rating", ":", " ", "4">>), Reply(<<"4", " ", "5">>)}

InitRate ==
    /\ InitApp
    /\ call \in {[fn |-> "rate_blog", content |-> Text(0, 50, 0, p),
                  gens |-> <<g1, g2>>] :
                    p \in Polarities, g1 \in RatingReplies,
                    g2 \in {Reply(<<"5">>), Raised}}
    /\ ret = NoRet

RateBlogCall ==
    /\ ret = NoRet
    /\ ret' = rate_blog(call.content, call.gens)
    /\ UNCHANGED <<appvars, call>>

SpecRate == InitRate /\ [][RateBlogCall]_vars

-----------------------------------------------------------------------------
(* rate_with_textblob on two polarities, the lower first *)

InitSentiment ==
    /\ InitApp
    /\ call \in {[fn |-> "rate_with_textblob", lo |-> p, hi |-> q] :
                    p \in Polarities, q \in Polarities}
    /\ call.lo <= call.hi
    /\ ret = NoRet

SentimentCall ==
    /\ ret = NoRet
    /\ ret' = [lo |-> rate_with_textblob(Text(0, 50, 0, call.lo)),
               hi |-> rate_with_textblob(Text(0, 50, 0, call.hi))]
    /\ UNCHANGED <<appvars, call>>

SpecSentiment == InitSentiment /\ [][SentimentCall]_vars

-----------------------------------------------------------------------------
(* parse_alerts on lists of lines *)

FedLine ==
    <<"Fed", " ", "raises", " ", "rates", " ", EmDash, " ", "Banking", " ",
      EmDash, " ", "Negative", " ", EmDash, " ", "Higher", " ", "rates", " ",
      "squeeze", " ", "margins">>

SampleLines ==
    {<<>>,
     <<" ", "\t">>,
     <<"No", " ", "news">>,
     <<"a", " ", EmDash, " ", "b">>,
     <<"a", EmDash, "b", EmDash, "c">>,
     FedLine,
     GoodLine,
     <<"*", "*", "a", "*", "*", EmDash, "b", "\t", EmDash, "-", EmDash, "d",
       EmDash, "e", EmDash, "f">>,
     <<EmDash, EmDash, EmDash>>}

RECURSIVE LineLists(_)
LineLists(n) ==
    IF n = 0 THEN {<<>>}
    ELSE LineLists(n - 1)
            \cup {Append(l, x) : l \in {m \in LineLists(n - 1) : Len(m) = n - 1},
                                 x \in SampleLines}

InitParse ==
    /\ InitApp
    /\ call \in {[fn |-> "parse_alerts", lines |-> l] : l \in LineLists(MaxLines)}
    /\ ret = NoRet

ParseAlertsCall ==
    /\ ret = NoRet
    /\ ret' = [val |-> parse_alerts(call.lines)]
    /\ UNCHANGED <<appvars, call>>

SpecParse == InitParse /\ [][ParseAlertsCall]_vars

-----------------------------------------------------------------------------
(* The record store alone: saves and loads of arbitrary record lists.      *)
(* call remembers the list last saved for each kind, ret is the last load. *)

SampleBlogs ==
    {new_blog([blog_counter |-> 1],
              Form("amy", "Outlook", Text(0, 50, 0, -60), ""), 1, 0),
     new_blog([blog_counter |-> 7],
              Form("bo", "Rates", Text(1, 80, 2, 70), "Crypto"), 5, 300)}

SampleSummaries ==
    {summary_obj([summary_counter |-> 1],
                 Doc(<<>>, "General", Text(0, 100, 0, 0)),
                 <<ErrorPrefix, "quota exceeded">>, 0),
     summary_obj([summary_counter |-> 2],
                 Doc(<<"Q4 Report">>, "Balance Sheet", Text(2, 501, 1, 0)),
                 <<"O", "K">>, 300)}

RECURSIVE ListsOf(_, _)
ListsOf(S, n) ==
    IF n = 0 THEN {<<>>}
    ELSE ListsOf(S, n - 1)
            \cup {Append(l, x) : l \in {m \in ListsOf(S, n - 1) : Len(m) = n - 1},
                                 x \in S}

InitStore ==
    /\ InitApp
    /\ call = [fn |-> "store", blogs |-> None, summaries |-> None]
    /\ ret = NoRet

SaveBlogs(X) ==
    /\ disk' = save_blogs(disk, X)
    /\ call' = [call EXCEPT !.blogs = Some(X)]
    /\ ret' = NoRet
    /\ UNCHANGED <<sess, loaded, ui, calls, now, news_cache, alerts_cache>>

SaveSummaries(X) ==
    /\ disk' = save_summaries(disk, X)
    /\ call' = [call EXCEPT !.summaries = Some(X)]
    /\ ret' = NoRet
    /\ UNCHANGED <<sess, loaded, ui, calls, now, news_cache, alerts_cache>>

LoadBlogs ==
    /\ ret' = [kind |-> "blogs", val |-> load_blogs(disk)]
    /\ UNCHANGED <<appvars, call>>

LoadSummaries ==
    /\ ret' = [kind |-> "summaries", val |-> load_summaries(disk)]
    /\ UNCHANGED <<appvars, call>>

NextStore ==
    \/ \E X \in ListsOf(SampleBlogs, MaxRecords) : SaveBlogs(X)
    \/ \E X \in ListsOf(SampleSummaries, MaxRecords) : SaveSummaries(X)
    \/ LoadBlogs
    \/ LoadSummaries

SpecStore == InitStore /\ [][NextStore]_vars

-----------------------------------------------------------------------------
(* Properties of the script runs (Spec) *)

Abs(n) == IF n < 0 THEN -n ELSE n

IsPrefix(a, b) == Len(a) <= Len(b) /\ SubSeq(b, 1, Len(a)) = a

Started(s) == sess[s] # NewSession

\* what the run for session s finds after its initialisation
blogs_before(s) == IF Started(s) THEN sess[s].blogs ELSE load_blogs(disk)
blog_counter_before(s) ==
    IF Started(s) THEN sess[s].blog_counter ELSE Len(load_blogs(disk)) + 1
summaries_before(s) ==
    IF Started(s) THEN sess[s].summaries ELSE load_summaries(disk)
summary_counter_before(s) ==
    IF Started(s) THEN sess[s].summary_counter
    ELSE Len(load_summaries(disk)) + 1

\* C1: every blog record, in a session's list or in the blogs file, has an
\* integer rating between 1 and 5, whatever the model replied when it was
\* rated.
C1_RatingInRange ==
    /\ \A s \in Sessions :
          Started(s) =>
              \A i \in 1..Len(sess[s].blogs) : sess[s].blogs[i].rating \in 1..5
    /\ \A i \in 1..Len(load_blogs(disk)) : load_blogs(disk)[i].rating \in 1..5

\* a blog rated with a reply above 5 and a blog rated with a reply below 1
\* (or none) are both in the list and in the file
C1_Witness ==
    \E s \in Sessions :
        /\ Started(s)
        /\ ui = <<"blog_success">>
        /\ calls = <<"generate_content">>
        /\ \E i \in 1..Len(sess[s].blogs) :
              sess[s].blogs[i].tag = "Crypto" /\ sess[s].blogs[i].rating = 5
        /\ \E i \in 1..Len(sess[s].blogs) :
              sess[s].blogs[i].tag = "General Finance"
                  /\ sess[s].blogs[i].rating = 1
        /\ load_blogs(disk) = sess[s].blogs

\* C2: in one session that found priorCount records stored at its start, the
\* records it has created since carry the ids priorCount+1, priorCount+2, ...
\* in order of creation, and the next id is one past the list: a rejected
\* submission uses up no id.  For blogs and for summaries alike.
C2_IdsContiguous ==
    \A s \in Sessions :
        Started(s) =>
            /\ \A i \in (loaded[s].blogs + 1)..Len(sess[s].blogs) :
                  sess[s].blogs[i].id = i
            /\ sess[s].blog_counter = Len(sess[s].blogs) + 1
            /\ \A i \in (loaded[s].summaries + 1)..Len(sess[s].summaries) :
                  sess[s].summaries[i].id = i
            /\ sess[s].summary_counter = Len(sess[s].summaries) + 1

\* a session that started on one stored blog has created two more, and has
\* just had a submission rejected
C2_Witness ==
    \E s \in Sessions :
        /\ Started(s)
        /\ loaded[s].blogs = 1
        /\ Len(sess[s].blogs) = 3
        /\ sess[s].blogs[2].id = 2
        /\ sess[s].blogs[3].id = 3
        /\ ui = <<"blog_warning_too_short">>

blog_rejectable(form) ==
    \/ form.user_name = ""
    \/ form.title = ""
    \/ form.content = EmptyText
    \/ text_len(form.content) < 50

\* C3: a blog submission whose content is under 50 characters, or whose
\* username, title or content is missing, creates no record: the session's
\* blog list and counter and the files on disk are as before, and the model
\* is not called.
C3_RejectedBlogChangesNothing ==
    [][\A s \in Sessions, sub \in BlogSubmissions :
          (blog_rejectable(sub.form) /\ SubmitBlog(s, sub.form, sub.gens))
              => /\ sess'[s].blogs = blogs_before(s)
                 /\ sess'[s].blog_counter = blog_counter_before(s)
                 /\ sess'[s].summaries = summaries_before(s)
                 /\ disk' = disk
                 /\ calls' = <<>>]_vars

\* a 49-character blog has just been turned away in a session holding a blog
C3_Witness ==
    \E s \in Sessions :
        /\ Started(s)
        /\ ui = <<"blog_warning_too_short">>
        /\ calls = <<>>
        /\ Len(sess[s].blogs) >= 1
        /\ load_blogs(disk) = sess[s].blogs

\* C4: a summary request whose content is under 100 characters creates no
\* record: the session's summary list and counter and the files on disk are
\* as before, and the model is not called.
C4_RejectedSummaryChangesNothing ==
    [][\A s \in Sessions, req \in SummaryRequests :
          (text_len(req.form.content) < 100
               /\ GenerateSummary(s, req.form, req.gens))
              => /\ sess'[s].summaries = summaries_before(s)
                 /\ sess'[s].summary_counter = summary_counter_before(s)
                 /\ sess'[s].blogs = blogs_before(s)
                 /\ disk' = disk
                 /\ calls' = <<>>]_vars

\* a 99-character document has just been turned away in a session holding a
\* summary
C4_Witness ==
    \E s \in Sessions :
        /\ Started(s)
        /\ ui = <<"summary_warning_too_short">>
        /\ calls = <<>>
        /\ Len(sess[s].summaries) >= 1
        /\ load_summaries(disk) = sess[s].summaries

\* C10: within a session no action removes or changes a record: across every
\* step (a creation, a rejection, a page view, an alert refresh) the blog
\* list and the summary list before the step are prefixes of the lists after
\* it, in the session and in the files.
C10_AppendOnly ==
    [][/\ \A s \in Sessions :
             (Started(s) /\ sess'[s] # NewSession) =>
                 /\ IsPrefix(sess[s].blogs, sess'[s].blogs)
                 /\ IsPrefix(sess[s].summaries, sess'[s].summaries)
       /\ \/ disk' = disk
          \/ /\ IsPrefix(load_blogs(disk), load_blogs(disk'))
             /\ IsPrefix(load_summaries(disk), load_summaries(disk'))]_vars

\* the alerts page has just fetched news and analysed it in a session that
\* holds two blogs and a summary
C10_Witness ==
    \E s \in Sessions :
        /\ Started(s)
        /\ calls = <<"requests.get", "generate_content">>
        /\ ui = <<"alerts_success">>
        /\ Len(sess[s].blogs) = 2
        /\ Len(sess[s].summaries) = 1

-----------------------------------------------------------------------------
(* Properties of rate_blog (SpecRate) and rate_with_textblob (SpecSentiment) *)

Returned == ret # NoRet

\* the model's reply to the rating prompt is the numeral m, padded or not
model_rated(m) ==
    /\ ~call.gens[1].raised
    /\ strip(call.gens[1].text) = <<Digits[m + 1]>>

heuristic_rated(b) == rate_with_textblob(call.content) = b

\* C5: with a model rating m and a heuristic rating b, both in 1..5, the
\* rating is round((4m + b) / 5) clamped to 1..5: the integer nearest to
\* (4m + b) / 5, which is never half way between two integers.  m = 5, b = 3
\* gives 5 and m = 1, b = 5 gives 2.
C5_WeightedRating ==
    Returned =>
        \A m \in 1..5, b \in 1..5 :
            (model_rated(m) /\ heuristic_rated(b)) =>
                /\ 2 * ((4 * m + b) % 5) # 5
                /\ 2 * Abs(5 * ret.v - (4 * m + b)) < 5
                /\ ret.v \in 1..5
                /\ (m = 5 /\ b = 3) => ret.v = 5
                /\ (m = 1 /\ b = 5) => ret.v = 2

\* the model said 5 of a blog the heuristic rates 3, and the blog got 5
C5_Witness ==
    /\ Returned
    /\ model_rated(5)
    /\ heuristic_rated(3)
    /\ ret.v = 5

\* replies that are no integer, and replies that are the integer 0
NonIntegerTexts ==
    {<<"f", "i", "v", "e">>, <<>>, <<"4", ".", "5">>,
     <<"Rating", ":", " ", "4">>, <<"4", " ", "5">>}
ZeroTexts == {<<"0">>, <<" ", "0", "\n">>, <<"-", "0">>, <<"0", "0">>}

model_replied_zero ==
    ~call.gens[1].raised /\ call.gens[1].text \in ZeroTexts

model_rating_absent ==
    \/ call.gens[1].raised
    \/ call.gens[1].text \in NonIntegerTexts
    \/ model_replied_zero

\* C6: when the model call fails, or its reply is not an integer, or is 0,
\* rate_with_gemini returns without raising (None, or the 0 that counts as
\* absent), rate_blog returns the heuristic rating alone, and the model has
\* been called once only.
C6_FallbackToHeuristic ==
    (Returned /\ model_rating_absent) =>
        /\ rate_with_gemini(call.content, call.gens).v \in {None, Some(0)}
        /\ ~model_replied_zero
              => rate_with_gemini(call.content, call.gens).v = None
        /\ ret.v = rate_with_textblob(call.content)
        /\ ret.used = 1

\* the model call failed, a second call would have answered 5, and the blog
\* the heuristic rates 2 got 2
C6_Witness ==
    /\ Returned
    /\ call.gens[1].raised
    /\ call.gens[2] = Reply(<<"5">>)
    /\ heuristic_rated(2)
    /\ ret = [v |-> 2, used |-> 1]

\* C9: the sentiment scorer never decreases as polarity increases, stays in
\* 1..5, maps polarity -0.6, -0.2, 0.2 and 0.6 to 1, 2, 3 and 4 (the
\* boundaries belong to the lower band), and maps polarity 0, that of an
\* empty text, to 3.
C9_SentimentMonotone ==
    Returned =>
        /\ ret.lo <= ret.hi
        /\ ret.lo \in 1..5
        /\ ret.hi \in 1..5
        /\ call.lo = -60 => ret.lo = 1
        /\ call.lo = -20 => ret.lo = 2
        /\ call.lo = 0 => ret.lo = 3
        /\ call.lo = 20 => ret.lo = 3
        /\ call.lo = 60 => ret.lo = 4
        /\ call.hi = 100 => ret.hi = 5
        /\ call.lo = -59 => ret.lo = 2
        /\ call.lo = 61 => ret.lo = 5

\* polarity -0.6 scored 1 and polarity 0.6 scored 4
C9_Witness ==
    /\ Returned
    /\ call.lo = -60
    /\ call.hi = 60
    /\ ret = [lo |-> 1, hi |-> 4]

-----------------------------------------------------------------------------
(* Properties of parse_alerts (SpecParse) *)

delimiters(line) == {i \in 1..Len(line) : line[i] = EmDash}

\* the position of the j-th delimiter of the line, one past its end if it
\* has fewer
delimiter_at(line, j) ==
    IF Cardinality(delimiters(line)) < j THEN Len(line) + 1
    ELSE CHOOSE i \in delimiters(line) :
            Cardinality({k \in delimiters(line) : k < i}) = j - 1

\* the j-th segment of the line, stripped of blanks and list markers
segment(line, j) ==
    LET from == IF j = 1 THEN 1 ELSE delimiter_at(line, j - 1) + 1
        to == delimiter_at(line, j) - 1
    IN strip_chars(SubSeq(line, from, to), AlertStrip)

blank(line) == \A i \in 1..Len(line) : line[i] \in Whitespace

qualifies(line) == ~blank(line) /\ Cardinality(delimiters(line)) >= 3

alert_of(line) ==
    [headline |-> segment(line, 1), stock |-> segment(line, 2),
     impact |-> segment(line, 3), summary |-> segment(line, 4)]

\* C7: parse_alerts returns one alert for each non-blank line that has at
\* least three em dashes, made of the line's first four stripped segments,
\* in the order of the lines and without removing duplicates; so it never
\* returns more alerts than there are lines.
C7_ParseAlerts ==
    Returned =>
        LET kept == SelectSeq(call.lines, qualifies)
        IN /\ Len(ret.val) = Len(kept)
           /\ \A i \in 1..Len(kept) : ret.val[i] = alert_of(kept[i])
           /\ Len(ret.val) <= Len(call.lines)
           /\ call.lines = <<FedLine>> =>
                 ret.val = <<[headline |-> <<"Fed", " ", "raises", " ", "rates">>,
                              stock |-> <<"Banking">>,
                              impact |-> <<"Negative">>,
                              summary |-> <<"Higher", " ", "rates", " ",
                                            "squeeze", " ", "margins">>]>>

\* the same line twice with a two-dash line between them gave the same alert
\* twice
C7_Witness ==
    /\ Returned
    /\ Len(call.lines) = 3
    /\ call.lines[1] = FedLine
    /\ call.lines[3] = FedLine
    /\ Cardinality(delimiters(call.lines[2])) = 2
    /\ Len(ret.val) = 2
    /\ ret.val[1] = ret.val[2]
    /\ ret.val[1].stock = <<"Banking">>

-----------------------------------------------------------------------------
(* Properties of the record store (SpecStore) *)

\* C8: a load returns the list last saved for its kind, the empty list
\* included, and the empty list if nothing was saved and the file is absent;
\* saving one kind leaves what the other kind loads unchanged.
C8_StoreRoundTrip ==
    Returned =>
        ret.val = IF call[ret.kind] = None THEN <<>> ELSE call[ret.kind][1]

\* blogs saved, then summaries saved, then the two blogs loaded back
C8_Witness ==
    /\ Returned
    /\ ret.kind = "blogs"
    /\ Len(ret.val) = 2
    /\ ret.val[1] # ret.val[2]
    /\ call.summaries # None
    /\ call.summaries[1] # <<>>
    /\ BlogsFile \in DOMAIN disk
    /\ SummariesFile \in DOMAIN disk

-----------------------------------------------------------------------------
(* Properties of the Market Alerts page over time (SpecAlerts) *)

Contains(seq, x) == \E i \in 1..Len(seq) : seq[i] = x

\* the news result is memoized and younger than the freshness window
news_in_window == news_cache # None /\ now - news_cache[1].at < TTL

\* the step fetched from the news service and memoized the result now
fresh_fetch ==
    /\ calls' # <<>>
    /\ calls'[1] = "requests.get"
    /\ news_cache' # None
    /\ news_cache'[1].at = now

\* the step had the model analyse the news it fetched and memoized the lines
fresh_analysis ==
    /\ Contains(calls', "generate_content")
    /\ DOMAIN alerts_cache' = {news_cache'[1].val}
    /\ alerts_cache'[news_cache'[1].val].at = now

-----------------------------------------------------------------------------
(* Two browser sessions on the same storage directory (SpecTwo) *)

\* what the user of session s publishes
SessionForm(s) ==
    Form(IF s = 1 THEN "amy" ELSE "bo", "Outlook", Text(0, 50, 0, -60), "")

ShortForm == Form("amy", "Outlook", Text(0, 49, 0, 70), "Crypto")

NextTwo ==
    \/ \E s \in AllSessions : ViewPage(s)
    \/ \E s \in AllSessions : SubmitBlog(s, SessionForm(s), OkGens)
    \/ \E s \in AllSessions : SubmitBlog(s, ShortForm, OkGens)
    \/ \E s \in AllSessions : EndSession(s)

SpecTwo == Init /\ [][NextTwo]_vars

\* session s has created exactly one blog since it loaded the stored list
created_one(s) ==
    Started(s) /\ Len(sess[s].blogs) = loaded[s].blogs + 1

\* session t still holds, untouched, the stored list that session s loaded
holds_same_loaded_list(t, s) ==
    /\ Started(t)
    /\ loaded[t].blogs = loaded[s].blogs
    /\ Len(sess[t].blogs) = loaded[t].blogs
    /\ sess[t].blogs = SubSeq(sess[s].blogs, 1, loaded[s].blogs)

\* C12: nothing protects the store from two sessions.  When session s and
\* session t have loaded the same stored list and s has created one blog,
\* the blog t then creates gets the same id as the blog of s, and the blogs
\* file then holds the list of t, the last writer: the blog of s, which was
\* in the file, is in it no more.
C12_LastWriterWins ==
    [][\A s \in AllSessions, t \in AllSessions :
          (/\ s # t
           /\ created_one(s)
           /\ holds_same_loaded_list(t, s)
           /\ SubmitBlog(t, SessionForm(t), OkGens))
              => LET n == loaded[s].blogs
                     mine == sess[s].blogs[n + 1]
                     theirs == sess'[t].blogs[n + 1]
                 IN /\ theirs.id = mine.id
                    /\ theirs # mine
                    /\ Contains(load_blogs(disk), mine)
                    /\ load_blogs(disk') = sess'[t].blogs
                    /\ ~Contains(load_blogs(disk'), mine)
                    /\ sess'[s] = sess[s]]_vars

\* both sessions loaded the one stored blog, each has created a blog with
\* id 2, and the file holds bo's list: amy's blog 2 is not in it
C12_Witness ==
    /\ Started(1) /\ Started(2)
    /\ loaded[1].blogs = 1 /\ loaded[2].blogs = 1
    /\ Len(sess[1].blogs) = 2 /\ Len(sess[2].blogs) = 2
    /\ sess[1].blogs[1] = sess[2].blogs[1]
    /\ sess[1].blogs[2].id = 2 /\ sess[2].blogs[2].id = 2
    /\ sess[1].blogs[2].user_name = "amy"
    /\ sess[2].blogs[2].user_name = "bo"
    /\ load_blogs(disk) = sess[2].blogs
    /\ ~Contains(load_blogs(disk), sess[1].blogs[2])

-----------------------------------------------------------------------------
(* Sessions one after the other (Spec): the store across restarts *)

ids_are_positions(records) ==
    \A i \in 1..Len(records) : records[i].id = i

\* C13: with sessions that do not overlap, starting from an empty store, the
\* stored blogs and the stored summaries always carry the ids 1..n in list
\* order, and so does a session's own list, whose counter is always the
\* list's length plus 1: ids stay unique across restarts.
C13_IdsAcrossSessions ==
    /\ ids_are_positions(load_blogs(disk))
    /\ ids_are_positions(load_summaries(disk))
    /\ \A s \in Sessions :
          Started(s) =>
              /\ sess[s].blogs = load_blogs(disk)
              /\ sess[s].summaries = load_summaries(disk)
              /\ sess[s].blog_counter = Len(load_blogs(disk)) + 1
              /\ sess[s].summary_counter = Len(load_summaries(disk)) + 1

\* a second session found one blog and one summary stored, has added a
\* second blog and has then had a document turned away
C13_Witness ==
    \E s \in Sessions :
        /\ Started(s)
        /\ loaded[s].blogs = 1
        /\ loaded[s].summaries = 1
        /\ Len(load_blogs(disk)) = 2
        /\ load_blogs(disk)[2].id = 2
        /\ Len(load_summaries(disk)) = 1
        /\ ui = <<"summary_warning_too_short">>

-----------------------------------------------------------------------------
(* The summarizer when the model fails (Spec) *)

Last(seq) == seq[Len(seq)]

\* C14: a summary request that passes validation while the model call fails
\* still creates a record, as a successful call does: the record, whose
\* summary is the error string, is appended with the counter as its id, the
\* counter advances by 1, the summaries file is rewritten with the new list
\* and the page reports success.
C14_FailedSummaryIsRecorded ==
    [][\A s \in Sessions, req \in SummaryRequests :
          (/\ req.gens[1].raised
           /\ text_len(text_strip(req.form.content)) >= 100
           /\ GenerateSummary(s, req.form, req.gens))
              => /\ sess'[s].summaries
                       = Append(summaries_before(s), Last(sess'[s].summaries))
                 /\ Last(sess'[s].summaries).summary
                       = <<ErrorPrefix, req.gens[1].msg>>
                 /\ Last(sess'[s].summaries).id = summary_counter_before(s)
                 /\ Last(sess'[s].summaries).content = req.form.content
                 /\ sess'[s].summary_counter = summary_counter_before(s) + 1
                 /\ load_summaries(disk') = sess'[s].summaries
                 /\ calls' = <<"generate_content">>
                 /\ ui' = <<"summary_success">>]_vars

\* the second summary of the session has just been recorded and stored with
\* the error string as its text
C14_Witness ==
    \E s \in Sessions :
        /\ Started(s)
        /\ ui = <<"summary_success">>
        /\ Len(sess[s].summaries) = 2
        /\ Last(sess[s].summaries).summary = <<ErrorPrefix, "quota exceeded">>
        /\ Last(sess[s].summaries).id = 2
        /\ sess[s].summary_counter = 3
        /\ load_summaries(disk) = sess[s].summaries

-----------------------------------------------------------------------------
(* Failed news fetches (SpecAlerts) *)

FailedOutcomes == {NewsTimeout, NewsNetworkError, NewsData("error", <<>>)}

\* the memoized news result is the empty list
empty_news_memoized == news_cache # None /\ news_cache[1].val = <<>>

\* C15: a news fetch that times out, meets a network error or gets an error
\* status yields the empty list and is memoized like any result; every later
\* view of the page inside the freshness window, without a refresh, gets the
\* empty list again with no call to the news service, whatever the service
\* would answer by then; and no step has the model analyse an empty news
\* list.
C15_FailedFetchMemoized ==
    [][\A s \in Sessions, run \in AllAlertRuns :
          /\ (/\ run.outcome \in FailedOutcomes
              /\ \/ ~news_in_window /\ MarketAlerts(s, run.outcome, run.gens)
                 \/ RefreshData(s, run.outcome, run.gens))
                => /\ news_cache' # None
                   /\ news_cache'[1].val = <<>>
                   /\ news_cache'[1].at = now
                   /\ calls' = <<"requests.get">>
                   /\ Last(ui') = "alerts_error_unable_to_fetch"
          /\ (/\ news_in_window
              /\ empty_news_memoized
              /\ MarketAlerts(s, run.outcome, run.gens))
                => /\ calls' = <<>>
                   /\ news_cache' = news_cache
                   /\ alerts_cache' = alerts_cache
                   /\ Last(ui') = "alerts_error_unable_to_fetch"
          /\ (/\ \/ MarketAlerts(s, run.outcome, run.gens)
                 \/ RefreshData(s, run.outcome, run.gens)
              /\ news_cache'[1].val = <<>>)
                => ~Contains(calls', "generate_content")]_vars

\* five minutes after a fetch timed out the page has been shown again from
\* the memoized empty list, without any call
C15_Witness ==
    /\ empty_news_memoized
    /\ news_cache[1].at = 0
    /\ news_cache[1].msg = <<"news_timeout">>
    /\ now = TickStep
    /\ calls = <<>>
    /\ Last(ui) = "alerts_error_unable_to_fetch"

====
